---- MODULE Spec2Model ----
(***************************************************************************)
(* Model of the paginated mail listing, GET /mails: the query parameters   *)
(* take and skip (PaginationParamsDto), the validation of the query by the *)
(* global ValidationPipe, MailsService.getMailPaginated and the static     *)
(* mails collection it slices.                                             *)
(*                                                                         *)
(* A string is a sequence of one-character strings, "2.5" is               *)
(* <<"2", ".", "5">>.  An absent query parameter is the value Undefined.   *)
(* A JavaScript number is a record [nan, val]: NaN or the integer val.     *)
(***************************************************************************)
EXTENDS Integers, Sequences, FiniteSets, TLC

(***************************************************************************)
(* Bounds of the model.                                                    *)
(***************************************************************************)
\* longest take or skip string of a request
MaxStrLen == 3
\* number of records of the collection that stands for mails.ts in a test
MaxMails == 3

\* the characters the strings of a request are made of
Chars == {"0", "1", "-", ".", "a"}

\* the clients with a request in flight at the same time
Clients == {"c1", "c2"}

(***************************************************************************)
(* Strings and numbers.                                                    *)
(***************************************************************************)
Digits == {"0", "1", "2", "3", "4", "5", "6", "7", "8", "9"}

WhiteSpace == {" "}

\* the value of an absent property: query.take === undefined
Undefined == <<"undefined">>

\* the strings a request can carry in take or in skip
Strings == UNION {[1..n -> Chars] : n \in 0..MaxStrLen}

Params == Strings \cup {Undefined}

Queries == [take : Params, skip : Params]

\* the queries with a parameter that PaginationParamsDto does not declare,
\* as in GET /mails?unknown=a&take=..&skip=..
UnknownQueries == [take : Params, skip : Params, unknown : {<<"a">>}]

NaN == [nan |-> TRUE, val |-> 0]

Num(v) == [nan |-> FALSE, val |-> v]

isNaN(x) == x.nan

DigitValue(c) ==
  CASE c = "0" -> 0 [] c = "1" -> 1 [] c = "2" -> 2 [] c = "3" -> 3
    [] c = "4" -> 4 [] c = "5" -> 5 [] c = "6" -> 6 [] c = "7" -> 7
    [] c = "8" -> 8 [] c = "9" -> 9

\* s without its first n characters
Drop(s, n) == SubSeq(s, n + 1, Len(s))

\* the number of leading characters of s that are in set
RECURSIVE PrefixLen(_, _)
PrefixLen(s, set) ==
  IF s = <<>> \/ Head(s) \notin set THEN 0 ELSE 1 + PrefixLen(Tail(s), set)

\* the value of a string of decimal digits, most significant first
RECURSIVE DigitsValue(_)
DigitsValue(ds) ==
  IF ds = <<>> THEN 0
  ELSE DigitsValue(SubSeq(ds, 1, Len(ds) - 1)) * 10 + DigitValue(ds[Len(ds)])

\* the character of a decimal digit
DigitChar(d) == CHOOSE c \in Digits : DigitValue(c) = d

\* String(n), or n.toString(), for an integer n >= 0: its decimal digits, most significant
\* first, as in the `take=${k}&skip=${i * k}` of a client
RECURSIVE NumberToString(_)
NumberToString(n) ==
  IF n < 10 THEN <<DigitChar(n)>>
  ELSE NumberToString(n \div 10) \o <<DigitChar(n % 10)>>

\* parseInt that takes the whole string or nothing, as Number(string) does
\* for a string with something after the digits
parseInt_WholeString(string) ==
  LET signed == string # <<>> /\ Head(string) \in {"+", "-"}
      sign   == IF signed /\ Head(string) = "-" THEN -1 ELSE 1
      rest   == IF signed THEN Tail(string) ELSE string
      n      == PrefixLen(rest, Digits)
  IN  IF n = 0 \/ n < Len(rest) THEN NaN ELSE Num(sign * DigitsValue(rest))

\* parseInt(string, 10): leading white space is skipped, then an optional
\* sign, then the longest run of decimal digits; whatever follows is ignored,
\* and no digit at all gives NaN.  parseInt(undefined) parses "undefined".
parseInt(string) ==
  LET trimmed == Drop(string, PrefixLen(string, WhiteSpace))
      signed  == trimmed # <<>> /\ Head(trimmed) \in {"+", "-"}
      sign    == IF signed /\ Head(trimmed) = "-" THEN -1 ELSE 1
      rest    == IF signed THEN Tail(trimmed) ELSE trimmed
      n       == PrefixLen(rest, Digits)
  IN  IF n = 0 THEN NaN ELSE Num(sign * DigitsValue(SubSeq(rest, 1, n)))

\* validator.js isNumeric(str), the check behind @IsNumberString({}):
\* /^[+-]?([0-9]*[.])?[0-9]+$/
isNumeric(str) ==
  LET signed   == str # <<>> /\ Head(str) \in {"+", "-"}
      rest     == IF signed THEN Tail(str) ELSE str
      n        == PrefixLen(rest, Digits)
      afterDot == Drop(rest, n + 1)
  IN  \/ rest # <<>> /\ n = Len(rest)
      \/ /\ n < Len(rest)
         /\ rest[n + 1] = "."
         /\ afterDot # <<>>
         /\ PrefixLen(afterDot, Digits) = Len(afterDot)

\* @IsNumberString: typeof value === 'string' && isNumeric(value)
IsNumberString(value) == value # Undefined /\ isNumeric(value)

\* @IsOptional: the other checks of the property are skipped when it is
\* undefined
IsOptional(value) == value = Undefined

(***************************************************************************)
(* The mails collection.                                                   *)
(***************************************************************************)
\* the i-th record of mails.ts
Mail(i) == [id |-> i, unread |-> i \in {2, 3, 8, 11}]

\* the first n records of mails.ts
MailsOfSize(n) == [i \in 1..n |-> Mail(i)]

\* the number of records of mails.ts
NumMails == 20

\* the sizes of the collection: that of mails.ts, the small collection the
\* unit tests put in its place, and none at all
MailCounts == {0, MaxMails, NumMails}

Min(a, b) == IF a <= b THEN a ELSE b

Max(a, b) == IF a >= b THEN a ELSE b

\* ToIntegerOrInfinity of an argument of slice: NaN is 0
ToInteger(x) == IF isNaN(x) THEN 0 ELSE x.val

\* the bound of Array.prototype.slice for a relative index: a negative index
\* counts from the end, and every index is clamped to 0..len
RelativeIndex(rel, len) == IF rel < 0 THEN Max(len + rel, 0) ELSE Min(rel, len)

\* Array.prototype.slice(start, end)
slice(array, start, end) ==
  LET len   == Len(array)
      k     == RelativeIndex(ToInteger(start), len)
      final == RelativeIndex(ToInteger(end), len)
  IN  IF final <= k THEN <<>> ELSE SubSeq(array, k + 1, final)

\* the JavaScript sum of two numbers: NaN when either is NaN
Plus(x, y) == IF isNaN(x) \/ isNaN(y) THEN NaN ELSE Num(x.val + y.val)

(***************************************************************************)
(* The responses.                                                          *)
(***************************************************************************)
\* the message of an error body: one string, or an array of strings
SingleMessage(text) == [array |-> FALSE, items |-> <<text>>]

ArrayMessage(texts) == [array |-> TRUE, items |-> texts]

\* new BadRequestException(message): status 400 and the message as given
BadRequestException(message) == [status |-> 400, body |-> [message |-> message]]

\* new InternalServerErrorException(message): status 500
InternalServerErrorException(message) ==
  [status |-> 500, body |-> [message |-> SingleMessage(message)]]

\* a value returned by the handler of a @Get() route: status 200
Ok(dto) == [status |-> 200, body |-> dto]

\* no response yet
NoResponse == [status |-> 0, body |-> [message |-> ArrayMessage(<<>>)]]

\* plainToInstance(GetMailsPaginatedResponseDto, plain): a new object with
\* the properties of plain
plainToInstance(plain) == [mails |-> plain.mails, totalCount |-> plain.totalCount]

(***************************************************************************)
(* PaginationParamsDto under the ValidationPipe.                           *)
(***************************************************************************)
TakeMessage == "take must be a valid number"

SkipMessage == "skip must be a valid number"

\* validate of a pipe made with forbidNonWhitelisted: a property the class
\* does not declare is reported
validate_ForbidNonWhitelisted(query) ==
  (IF IsOptional(query.take) \/ IsNumberString(query.take)
     THEN <<>> ELSE <<TakeMessage>>)
  \o
  (IF IsOptional(query.skip) \/ IsNumberString(query.skip)
     THEN <<>> ELSE <<SkipMessage>>)
  \o
  (IF "unknown" \in DOMAIN query
     THEN <<"property unknown should not exist">> ELSE <<>>)

\* validate without @IsOptional: an absent parameter is not a number string
validate_NoIsOptional(query) ==
  (IF IsNumberString(query.take) THEN <<>> ELSE <<TakeMessage>>)
  \o
  (IF IsNumberString(query.skip) THEN <<>> ELSE <<SkipMessage>>)

\* the messages of the constraints the query violates, take before skip;
\* the pipe is made with { transform: true } alone, so a property the class
\* does not declare is neither removed nor reported
validate(query) ==
  (IF IsOptional(query.take) \/ IsNumberString(query.take)
     THEN <<>> ELSE <<TakeMessage>>)
  \o
  (IF IsOptional(query.skip) \/ IsNumberString(query.skip)
     THEN <<>> ELSE <<SkipMessage>>)

(***************************************************************************)
(* MailsService.getMailPaginated.                                          *)
(***************************************************************************)
DefaultTake == 10

DefaultSkip == 0

NoError == ""

\* ParseTakeSkip with a take of 0 let through: take < 0 in the place of
\* take <= 0
ParseTakeSkip_ZeroTakeAllowed(query) ==
  LET takeGiven == query.take # Undefined
      take      == IF takeGiven THEN parseInt(query.take) ELSE Num(DefaultTake)
      takeError ==
        IF ~takeGiven THEN NoError
        ELSE IF isNaN(take) THEN "Invalid take parameter"
        ELSE IF take.val < 0 THEN "Take must be a positive number (minimum 1)"
        ELSE NoError
      skipGiven == query.skip # Undefined
      skip      == IF skipGiven THEN parseInt(query.skip) ELSE Num(DefaultSkip)
      skipError ==
        IF ~skipGiven THEN NoError
        ELSE IF isNaN(skip) THEN "Invalid skip parameter"
        ELSE IF skip.val < 0 THEN "Skip must be a positive number or zero"
        ELSE NoError
  IN  [take |-> take, skip |-> skip,
       error |-> IF takeError # NoError THEN takeError ELSE skipError]

\* ParseTakeSkip with a skip of 0 refused: skip <= 0 in the place of skip < 0
ParseTakeSkip_ZeroSkipRefused(query) ==
  LET takeGiven == query.take # Undefined
      take      == IF takeGiven THEN parseInt(query.take) ELSE Num(DefaultTake)
      takeError ==
        IF ~takeGiven THEN NoError
        ELSE IF isNaN(take) THEN "Invalid take parameter"
        ELSE IF take.val <= 0 THEN "Take must be a positive number (minimum 1)"
        ELSE NoError
      skipGiven == query.skip # Undefined
      skip      == IF skipGiven THEN parseInt(query.skip) ELSE Num(DefaultSkip)
      skipError ==
        IF ~skipGiven THEN NoError
        ELSE IF isNaN(skip) THEN "Invalid skip parameter"
        ELSE IF skip.val <= 0 THEN "Skip must be a positive number or zero"
        ELSE NoError
  IN  [take |-> take, skip |-> skip,
       error |-> IF takeError # NoError THEN takeError ELSE skipError]

\* ParseTakeSkip without the isNaN tests: NaN is neither <= 0 nor < 0
ParseTakeSkip_NoNaNTest(query) ==
  LET takeGiven == query.take # Undefined
      take      == IF takeGiven THEN parseInt(query.take) ELSE Num(DefaultTake)
      takeError ==
        IF takeGiven /\ ~isNaN(take) /\ take.val <= 0
          THEN "Take must be a positive number (minimum 1)" ELSE NoError
      skipGiven == query.skip # Undefined
      skip      == IF skipGiven THEN parseInt(query.skip) ELSE Num(DefaultSkip)
      skipError ==
        IF skipGiven /\ ~isNaN(skip) /\ skip.val < 0
          THEN "Skip must be a positive number or zero" ELSE NoError
  IN  [take |-> take, skip |-> skip,
       error |-> IF takeError # NoError THEN takeError ELSE skipError]

\* ParseTakeSkip without the tests for an absent parameter: parseInt is
\* applied to undefined and overwrites the default
ParseTakeSkip_NoPresenceTest(query) ==
  LET take == parseInt(query.take)
      skip == parseInt(query.skip)
  IN  [take |-> take, skip |-> skip,
       error |-> IF isNaN(take) THEN "Invalid take parameter"
                 ELSE IF take.val <= 0
                   THEN "Take must be a positive number (minimum 1)"
                 ELSE IF isNaN(skip) THEN "Invalid skip parameter"
                 ELSE IF skip.val < 0
                   THEN "Skip must be a positive number or zero"
                 ELSE NoError]

\* the first try block: take and skip from the query, and the Error thrown
\* in it (NoError when none is)
ParseTakeSkip(query) ==
  LET takeGiven  == query.take # Undefined
      takeParsed == parseInt(query.take)
      take       == IF takeGiven THEN takeParsed ELSE Num(DefaultTake)
      takeError  ==
        IF ~takeGiven THEN NoError
        ELSE IF isNaN(take) THEN "Invalid take parameter"
        ELSE IF take.val <= 0 THEN "Take must be a positive number (minimum 1)"
        ELSE NoError
      skipGiven  == query.skip # Undefined
      skipParsed == parseInt(query.skip)
      skip       == IF skipGiven THEN skipParsed ELSE Num(DefaultSkip)
      skipError  ==
        IF ~skipGiven THEN NoError
        ELSE IF isNaN(skip) THEN "Invalid skip parameter"
        ELSE IF skip.val < 0 THEN "Skip must be a positive number or zero"
        ELSE NoError
  IN  [take |-> take, skip |-> skip,
       error |-> IF takeError # NoError THEN takeError ELSE skipError]

\* ReadMails with take as the end of the slice
ReadMails_EndIsTake(source, take, skip) ==
  [requestedMails |-> slice(source, skip, take),
   totalCount     |-> Len(source),
   source         |-> source]

\* ReadMails with skip taken as the number of the first record, from 0
ReadMails_OneTooFar(source, take, skip) ==
  [requestedMails |-> slice(source, Plus(skip, Num(1)),
                            Plus(Plus(skip, Num(1)), take)),
   totalCount     |-> Len(source),
   source         |-> source]

\* ReadMails counting the records of the page
ReadMails_CountsPage(source, take, skip) ==
  [requestedMails |-> slice(source, skip, Plus(skip, take)),
   totalCount     |-> Len(slice(source, skip, Plus(skip, take))),
   source         |-> source]

\* ReadMails with a skip past the end brought back to the last record
ReadMails_ClampsSkip(source, take, skip) ==
  LET last == Num(Max(Len(source) - 1, 0))
      from == IF ~isNaN(skip) /\ skip.val > last.val THEN last ELSE skip
  IN  [requestedMails |-> slice(source, from, Plus(from, take)),
       totalCount     |-> Len(source),
       source         |-> source]

\* ReadMails with splice in the place of slice: the page is removed from
\* the collection
ReadMails_Splices(source, take, skip) ==
  LET len   == Len(source)
      k     == RelativeIndex(ToInteger(skip), len)
      final == Min(k + Max(ToInteger(take), 0), len)
  IN  [requestedMails |-> IF final <= k THEN <<>> ELSE SubSeq(source, k + 1, final),
       totalCount     |-> len,
       source         |-> IF final <= k THEN source
                          ELSE SubSeq(source, 1, k) \o SubSeq(source, final + 1, len)]

\* ReadMails without the limit of take: every record from skip on
ReadMails_IgnoresTake(source, take, skip) ==
  [requestedMails |-> slice(source, skip, Num(Len(source))),
   totalCount     |-> Len(source),
   source         |-> source]

\* ReadMails that goes on from the first record when it gets to the end of
\* the collection: mails[(skip + i) % mails.length]
ReadMails_WrapsAround(source, take, skip) ==
  LET len   == Len(source)
      count == IF len = 0 \/ isNaN(take) \/ isNaN(skip) \/ skip.val < 0
               THEN 0 ELSE Max(take.val, 0)
  IN  [requestedMails |-> [i \in 1..count |-> source[((skip.val + i - 1) % len) + 1]],
       totalCount     |-> len,
       source         |-> source]

\* ReadMails with the record at skip + take in the page: one record too
\* many at the end
ReadMails_InclusiveEnd(source, take, skip) ==
  [requestedMails |-> slice(source, skip, Plus(Plus(skip, take), Num(1))),
   totalCount     |-> Len(source),
   source         |-> source]

\* the second try block: the requested mails, the total count, and the
\* collection as the block leaves it
ReadMails(source, take, skip) ==
  [requestedMails |-> slice(source, skip, Plus(skip, take)),
   totalCount     |-> Len(source),
   source         |-> source]

\* the third try block
BuildResponse(requestedMails, totalCount) ==
  plainToInstance([mails |-> requestedMails, totalCount |-> totalCount])

\* getMailPaginated with a catch that throws the message of the Error it
\* caught
getMailPaginated_RethrowsError(query, source) ==
  LET parsed == ParseTakeSkip(query)
      read   == ReadMails(source, parsed.take, parsed.skip)
  IN  IF parsed.error # NoError
      THEN [response |-> BadRequestException(SingleMessage(parsed.error)),
            logged   |-> <<"Error parsing take, skip", parsed.error>>,
            trace    |-> <<"parse">>,
            source   |-> source]
      ELSE [response |-> Ok(BuildResponse(read.requestedMails, read.totalCount)),
            logged   |-> <<>>,
            trace    |-> <<"parse", "read", "build">>,
            source   |-> read.source]

\* getMailPaginated with a catch that logs the Error and goes on with the
\* defaults
getMailPaginated_SwallowsError(query, source) ==
  LET parsed == ParseTakeSkip(query)
      failed == parsed.error # NoError
      read   == ReadMails(source,
                          IF failed THEN Num(DefaultTake) ELSE parsed.take,
                          IF failed THEN Num(DefaultSkip) ELSE parsed.skip)
  IN  [response |-> Ok(BuildResponse(read.requestedMails, read.totalCount)),
       logged   |-> IF failed THEN <<"Error parsing take, skip", parsed.error>>
                    ELSE <<>>,
       trace    |-> <<"parse", "read", "build">>,
       source   |-> read.source]

\* getMailPaginated with the collection read before the parameters are
\* looked at
getMailPaginated_ReadsFirst(query, source) ==
  LET parsed == ParseTakeSkip(query)
      read   == ReadMails(source, parsed.take, parsed.skip)
  IN  IF parsed.error # NoError
      THEN [response |-> BadRequestException(SingleMessage("Invalid take, skip")),
            logged   |-> <<"Error parsing take, skip", parsed.error>>,
            trace    |-> <<"read", "parse">>,
            source   |-> read.source]
      ELSE [response |-> Ok(BuildResponse(read.requestedMails, read.totalCount)),
            logged   |-> <<>>,
            trace    |-> <<"read", "parse", "build">>,
            source   |-> read.source]

\* getMailPaginated(query) on the collection source: the outcome (the dto
\* returned or the exception thrown), the line written by logger.error, the
\* blocks entered and the collection afterwards, when neither mails.slice
\* nor plainToInstance throws (Thrown has the catch of either)
getMailPaginated(query, source) ==
  LET parsed == ParseTakeSkip(query)
      read   == ReadMails(source, parsed.take, parsed.skip)
  IN  IF parsed.error # NoError
      THEN [response |-> BadRequestException(SingleMessage("Invalid take, skip")),
            logged   |-> <<"Error parsing take, skip", parsed.error>>,
            trace    |-> <<"parse">>,
            source   |-> source]
      ELSE [response |-> Ok(BuildResponse(read.requestedMails, read.totalCount)),
            logged   |-> <<>>,
            trace    |-> <<"parse", "read", "build">>,
            source   |-> read.source]

\* ParseTakeSkipFirst with a negative take made 0: Math.max(0, take)
ParseTakeSkipFirst_ClampsTake(query) ==
  LET take == parseInt(query.take)
  IN  [take  |-> IF ~isNaN(take) /\ take.val < 0 THEN Num(0) ELSE take,
       skip  |-> parseInt(query.skip),
       error |-> NoError]

\* ParseTakeSkipFirst with a negative skip made 0: Math.max(0, skip)
ParseTakeSkipFirst_ClampsSkip(query) ==
  LET skip == parseInt(query.skip)
  IN  [take  |-> parseInt(query.take),
       skip  |-> IF ~isNaN(skip) /\ skip.val < 0 THEN Num(0) ELSE skip,
       error |-> NoError]

\* ParseTakeSkipFirst with parseInt(..) || default: NaN and 0 give way to
\* the default
ParseTakeSkipFirst_DefaultsOnNaN(query) ==
  LET take == parseInt(query.take)
      skip == parseInt(query.skip)
  IN  [take  |-> IF isNaN(take) \/ take.val = 0 THEN Num(DefaultTake) ELSE take,
       skip  |-> IF isNaN(skip) \/ skip.val = 0 THEN Num(DefaultSkip) ELSE skip,
       error |-> NoError]

\* ParseTakeSkipFirst with Number(..) in the place of parseInt(.., 10): a
\* string with anything after its digits is NaN
ParseTakeSkipFirst_Number(query) ==
  [take  |-> parseInt_WholeString(query.take),
   skip  |-> parseInt_WholeString(query.skip),
   error |-> NoError]

\* the first try block of the first definition of getMailPaginated in
\* mails.service.ts: both parameters go through parseInt, given or not, and
\* nothing is thrown
ParseTakeSkipFirst(query) ==
  [take |-> parseInt(query.take), skip |-> parseInt(query.skip), error |-> NoError]

\* the first definition of getMailPaginated in mails.service.ts, the one
\* without tests on the parameters
getMailPaginatedFirst(query, source) ==
  LET parsed == ParseTakeSkipFirst(query)
      read   == ReadMails(source, parsed.take, parsed.skip)
  IN  [response |-> Ok(BuildResponse(read.requestedMails, read.totalCount)),
       logged   |-> <<>>,
       trace    |-> <<"parse", "read", "build">>,
       source   |-> read.source]

\* what can throw in the second try block (mails.slice, mails.length) and in
\* the third (plainToInstance)
Faults == {"read", "build"}

\* the stages of trace up to the first stage, that one included
RECURSIVE UpTo(_, _)
UpTo(stages, stage) ==
  IF stages = <<>> THEN <<>>
  ELSE IF Head(stages) = stage THEN <<stage>>
  ELSE <<Head(stages)>> \o UpTo(Tail(stages), stage)

\* Thrown with catch blocks that log the error and go on: what is returned
\* is made of the initial values, requestedMails = [] and totalCount = 0
Thrown_GoesOn(fault, outcome, source) ==
  LET entered == {outcome.trace[i] : i \in DOMAIN outcome.trace}
  IN  IF fault = "read" /\ "read" \in entered
      THEN [response |-> Ok(BuildResponse(<<>>, 0)),
            logged   |-> <<"Error getting mails from database">>,
            trace    |-> outcome.trace,
            source   |-> source]
      ELSE IF fault = "build" /\ "build" \in entered
      THEN [response |-> Ok([mails |-> <<>>, totalCount |-> 0]),
            logged   |-> <<"Error building response">>,
            trace    |-> outcome.trace,
            source   |-> outcome.source]
      ELSE outcome

\* the outcome of a call on source whose block fault throws, outcome being
\* what it is when nothing throws: the catch of the block the call entered
\* logs the error and throws InternalServerErrorException; a call that did
\* not get to the block is as it was
Thrown(fault, outcome, source) ==
  LET entered == {outcome.trace[i] : i \in DOMAIN outcome.trace}
  IN  IF fault = "read" /\ "read" \in entered
      THEN [response |-> InternalServerErrorException(
                           "Error getting mails from database"),
            logged   |-> <<"Error getting mails from database">>,
            trace    |-> UpTo(outcome.trace, "read"),
            source   |-> source]
      ELSE IF fault = "build" /\ "build" \in entered
      THEN [response |-> InternalServerErrorException("Error building response"),
            logged   |-> <<"Error building response">>,
            trace    |-> UpTo(outcome.trace, "build"),
            source   |-> outcome.source]
      ELSE outcome

(***************************************************************************)
(* MailsController.getMails behind the global ValidationPipe.              *)
(***************************************************************************)
\* getMails handing the service a query without its skip
getMails_DropsSkip(query, source) ==
  LET errors == validate(query)
      served == getMailPaginated([query EXCEPT !.skip = Undefined], source)
  IN  IF errors # <<>>
      THEN [response |-> BadRequestException(ArrayMessage(errors)),
            logged   |-> <<>>,
            trace    |-> <<"validate">>,
            source   |-> source]
      ELSE [served EXCEPT !.trace = <<"validate">> \o @]

\* getMails with the ValidationPipe after the handler: the query goes to the
\* service first, and what the service throws is the response
getMails_ServiceFirst(query, source) ==
  LET errors == validate(query)
      served == getMailPaginated(query, source)
  IN  IF served.response.status # 200
      THEN served
      ELSE IF errors # <<>>
      THEN [response |-> BadRequestException(ArrayMessage(errors)),
            logged   |-> <<>>,
            trace    |-> served.trace \o <<"validate">>,
            source   |-> served.source]
      ELSE [served EXCEPT !.trace = @ \o <<"validate">>]

\* GET /mails: the ValidationPipe on the query, then the handler, which
\* returns what the service returns
getMails(query, source) ==
  LET errors == validate(query)
      served == getMailPaginated(query, source)
  IN  IF errors # <<>>
      THEN [response |-> BadRequestException(ArrayMessage(errors)),
            logged   |-> <<>>,
            trace    |-> <<"validate">>,
            source   |-> source]
      ELSE [served EXCEPT !.trace = <<"validate">> \o @]

(***************************************************************************)
(* The state machine: one request at a time, over HTTP or as a direct call *)
(* of the service.                                                         *)
(***************************************************************************)
VARIABLES
  mails,     \* the collection exported by mails.ts
  query,     \* the take and skip of the request
  entry,     \* how the request was made: "none" while it is pending
  response,  \* the outcome of the request
  logged,    \* what the request wrote with logger.error
  trace,     \* the stages the request went through
  repeated,  \* the request is the same as the one answered just before it
  fault,     \* the block of getMailPaginated that throws: "none" for no block
  requests   \* the requests of the clients that make several of them

vars == <<mails, query, entry, response, logged, trace, repeated, fault,
          requests>>

Init ==
  /\ mails \in {MailsOfSize(n) : n \in MailCounts}
  /\ query \in Queries
  /\ entry = "none"
  /\ response = NoResponse
  /\ logged = <<>>
  /\ trace = <<>>
  /\ repeated = FALSE
  /\ fault = "none"
  /\ requests = <<>>

Finish(how, outcome) ==
  LET result == Thrown(fault, outcome, mails)
  IN  /\ entry' = how
      /\ repeated' = (entry = how)
      /\ response' = result.response
      /\ logged' = result.logged
      /\ trace' = result.trace
      /\ mails' = result.source
      /\ UNCHANGED <<query, fault, requests>>

\* GET /mails?take=..&skip=..
HttpGetMails ==
  /\ entry = "none"
  /\ Finish("http", getMails(query, mails))

\* service.getMailPaginated(query), as the unit tests call it
CallGetMailPaginated ==
  /\ entry = "none"
  /\ Finish("service", getMailPaginated(query, mails))

\* the response is delivered and the same request may be made again
Return ==
  /\ entry # "none"
  /\ entry' = "none"
  /\ response' = NoResponse
  /\ logged' = <<>>
  /\ trace' = <<>>
  /\ repeated' = FALSE
  /\ UNCHANGED <<mails, query, fault, requests>>

\* service.getMailPaginated(query) with the first definition of the method
CallGetMailPaginatedFirst ==
  /\ entry = "none"
  /\ Finish("first", getMailPaginatedFirst(query, mails))

Next ==
  \/ HttpGetMails
  \/ CallGetMailPaginated
  \/ CallGetMailPaginatedFirst
  \/ Return

Spec == Init /\ [][Next]_vars

(***************************************************************************)
(* Requests in a row: the same query again, right after the response to    *)
(* the request before, over HTTP or as a direct call.                      *)
(***************************************************************************)
HttpGetMailsAgain ==
  /\ entry # "none"
  /\ Finish("http", getMails(query, mails))

CallGetMailPaginatedAgain ==
  /\ entry # "none"
  /\ Finish("service", getMailPaginated(query, mails))

CallGetMailPaginatedFirstAgain ==
  /\ entry # "none"
  /\ Finish("first", getMailPaginatedFirst(query, mails))

NextRepeat ==
  \/ HttpGetMails
  \/ CallGetMailPaginated
  \/ CallGetMailPaginatedFirst
  \/ HttpGetMailsAgain
  \/ CallGetMailPaginatedAgain
  \/ CallGetMailPaginatedFirstAgain

SpecRepeat == Init /\ [][NextRepeat]_vars

(***************************************************************************)
(* Requests over HTTP with a query parameter that is neither take nor skip.*)
(***************************************************************************)
InitUnknown ==
  /\ mails \in {MailsOfSize(n) : n \in MailCounts}
  /\ query \in UnknownQueries
  /\ entry = "none"
  /\ response = NoResponse
  /\ logged = <<>>
  /\ trace = <<>>
  /\ repeated = FALSE
  /\ fault = "none"
  /\ requests = <<>>

NextUnknown == HttpGetMails \/ Return

SpecUnknown == InitUnknown /\ [][NextUnknown]_vars

(***************************************************************************)
(* Requests on a collection that cannot be read, or with a response that   *)
(* cannot be built.                                                        *)
(***************************************************************************)
InitFault ==
  /\ mails = MailsOfSize(NumMails)
  /\ query \in Queries
  /\ entry = "none"
  /\ response = NoResponse
  /\ logged = <<>>
  /\ trace = <<>>
  /\ repeated = FALSE
  /\ fault \in Faults
  /\ requests = <<>>

SpecFault == InitFault /\ [][Next]_vars

(***************************************************************************)
(* Requests in flight at the same time.  The ValidationPipe is awaited, so *)
(* other requests may run between the validation of a query and the call   *)
(* of the handler; the handler and the service are synchronous and run to  *)
(* their end once called.                                                  *)
(***************************************************************************)
\* the queries of the requests in flight: each parameter is absent, empty
\* or one character
ConcurrentParams == {<<c>> : c \in Chars} \cup {<<>>, Undefined}

ConcurrentQueries == [take : ConcurrentParams, skip : ConcurrentParams]

\* a request that has been received and has no response yet
Received(q) == [query |-> q, pc |-> "received", response |-> NoResponse]

InitConcurrent ==
  /\ mails \in {MailsOfSize(n) : n \in MailCounts}
  /\ query = [take |-> Undefined, skip |-> Undefined]
  /\ entry = "none"
  /\ response = NoResponse
  /\ logged = <<>>
  /\ trace = <<>>
  /\ repeated = FALSE
  /\ fault = "none"
  /\ requests \in [Clients -> {Received(q) : q \in ConcurrentQueries}]

\* the ValidationPipe on the query of request r: the request is answered
\* 400 or goes on to the handler
Validate(r) ==
  /\ requests[r].pc = "received"
  /\ LET errors == validate(requests[r].query)
     IN  requests' =
           [requests EXCEPT ![r] =
              IF errors # <<>>
              THEN [@ EXCEPT !.pc = "done",
                             !.response = BadRequestException(ArrayMessage(errors))]
              ELSE [@ EXCEPT !.pc = "validated"]]
  /\ UNCHANGED <<mails, query, entry, response, logged, trace, repeated, fault>>

\* the handler getMails on the validated query of request r: what the
\* service returns or throws is the response
Handle(r) ==
  /\ requests[r].pc = "validated"
  /\ LET outcome == Thrown(fault, getMailPaginated(requests[r].query, mails), mails)
     IN  /\ requests' = [requests EXCEPT ![r] =
                           [@ EXCEPT !.pc = "done", !.response = outcome.response]]
         /\ mails' = outcome.source
  /\ UNCHANGED <<query, entry, response, logged, trace, repeated, fault>>

NextConcurrent == \E r \in DOMAIN requests : Validate(r) \/ Handle(r)

SpecConcurrent == InitConcurrent /\ [][NextConcurrent]_vars

(***************************************************************************)
(* A client that reads the collection page after page: GET /mails with     *)
(* take=k&skip=0, then skip=k, skip=2k, .. until a page has no mails.      *)
(***************************************************************************)
\* the page sizes of the client: up to one more than mails.ts has records
PageSizes == 1..(NumMails + 1)

\* the query for page i, from 0, of pages of k mails
PageQuery(k, i) == [take |-> NumberToString(k), skip |-> NumberToString(i * k)]

\* the page size the client started with
PageSize == CHOOSE k \in PageSizes : requests[1].query.take = NumberToString(k)

InitPages ==
  /\ mails \in {MailsOfSize(n) : n \in MailCounts}
  /\ query = [take |-> Undefined, skip |-> Undefined]
  /\ entry = "none"
  /\ response = NoResponse
  /\ logged = <<>>
  /\ trace = <<>>
  /\ repeated = FALSE
  /\ fault = "none"
  /\ requests \in {<<Received(PageQuery(k, 0))>> : k \in PageSizes}

\* the last page had mails: the client asks for the next one
AskNextPage ==
  /\ requests[Len(requests)].pc = "done"
  /\ requests[Len(requests)].response.status = 200
  /\ requests[Len(requests)].response.body.mails # <<>>
  /\ requests' = Append(requests, Received(PageQuery(PageSize, Len(requests))))
  /\ UNCHANGED <<mails, query, entry, response, logged, trace, repeated, fault>>

NextPages ==
  \/ AskNextPage
  \/ \E r \in DOMAIN requests : Validate(r) \/ Handle(r)

SpecPages == InitPages /\ [][NextPages]_vars

(***************************************************************************)
(* Properties.                                                             *)
(***************************************************************************)
Stages == {trace[i] : i \in DOMAIN trace}

\* getMailPaginated ran: called directly, or by the controller once the
\* query passed the ValidationPipe
ServiceInvoked == entry = "service" \/ (entry = "http" /\ "parse" \in Stages)

\* the parameter is given and parses to an integer that is at least low
ParsesFrom(param, low) ==
  /\ param # Undefined
  /\ ~isNaN(parseInt(param))
  /\ parseInt(param).val >= low

Succeeded == response.status = 200

\* the records of source from index skip (from 0) on, take of them at most
Page(source, take, skip) ==
  [i \in 1..Min(take, Max(0, Len(source) - skip)) |-> source[skip + i]]

\* C1: a call of getMailPaginated with a take that parses to an integer >= 1
\* and a skip that parses to an integer >= 0 raises no error and returns
\* min(take, max(0, totalCount - skip)) mails, the remaining ones only when
\* skip + take runs past the end.
Thm_C1_PageLength ==
  (ServiceInvoked /\ ParsesFrom(query.take, 1) /\ ParsesFrom(query.skip, 0))
  => /\ Succeeded
     /\ Len(response.body.mails)
          = Min(parseInt(query.take).val,
                Max(0, Len(mails) - parseInt(query.skip).val))

\* a page cut short by the end of the collection, after some records skipped
Wit_C1_PartialPage ==
  /\ ServiceInvoked /\ ParsesFrom(query.take, 1) /\ ParsesFrom(query.skip, 1)
  /\ parseInt(query.skip).val < Len(mails)
  /\ parseInt(query.skip).val + parseInt(query.take).val > Len(mails)
  /\ Succeeded
  /\ Len(response.body.mails) = Len(mails) - parseInt(query.skip).val

\* C2: the mails of a successful call with a valid take and skip are the
\* records of the collection from index skip on, in order and unchanged: the
\* i-th mail returned is the record at index skip + i.
Thm_C2_ContiguousRun ==
  (ServiceInvoked /\ ParsesFrom(query.take, 1) /\ ParsesFrom(query.skip, 0)
     /\ Succeeded)
  => /\ \A i \in DOMAIN response.body.mails :
          /\ parseInt(query.skip).val + i <= Len(mails)
          /\ response.body.mails[i] = mails[parseInt(query.skip).val + i]
     /\ response.body.mails
          = Page(mails, parseInt(query.take).val, parseInt(query.skip).val)

\* a page from inside the collection: records before it and after it
Wit_C2_InnerPage ==
  /\ ServiceInvoked /\ ParsesFrom(query.take, 1) /\ ParsesFrom(query.skip, 1)
  /\ Succeeded
  /\ response.body.mails # <<>>
  /\ parseInt(query.skip).val + Len(response.body.mails) < Len(mails)
  /\ response.body.mails[1].id = parseInt(query.skip).val + 1

\* C3: the totalCount of every successful response is the size of the whole
\* collection, whatever take and skip are, so the same in any two responses.
Thm_C3_TotalCount ==
  (entry # "none" /\ Succeeded) => response.body.totalCount = Len(mails)

\* a successful response with fewer mails than the collection has
Wit_C3_PageSmallerThanTotal ==
  /\ entry # "none" /\ Succeeded
  /\ Len(response.body.mails) < Len(mails)
  /\ response.body.totalCount = Len(mails)
  /\ response.body.mails # <<>>

\* the parameter is absent, or given and parsing to an integer from low on
AbsentOrFrom(param, low) == param = Undefined \/ ParsesFrom(param, low)

Thm_C5_SkipPastEnd ==
  (ServiceInvoked /\ ParsesFrom(query.take, 1) /\ ParsesFrom(query.skip, Len(mails)))
  => /\ Succeeded
     /\ response.body.mails = <<>>
     /\ response.body.totalCount = Len(mails)

\* a skip past the end of a collection that has records
Wit_C5_EmptyPage ==
  /\ ServiceInvoked /\ ParsesFrom(query.take, 1)
  /\ ParsesFrom(query.skip, Len(mails) + 1)
  /\ Len(mails) > 0
  /\ Succeeded
  /\ response.body.mails = <<>>

\* the parameter is given and parses to an integer that is at most high
ParsesUpTo(param, high) ==
  /\ param # Undefined
  /\ ~isNaN(parseInt(param))
  /\ parseInt(param).val <= high

\* the parameter is absent or a number string: the ValidationPipe has
\* nothing against it
NumericOrAbsent(param) == param = Undefined \/ isNumeric(param)

\* the response of the service to a take or a skip out of range
InvalidTakeSkip == BadRequestException(SingleMessage("Invalid take, skip"))

\* the response is a 400 of the ValidationPipe: an array of one or two of
\* the messages of PaginationParamsDto
ValidationFailure ==
  /\ response.status = 400
  /\ response.body.message.array
  /\ response.body.message.items
       \in {<<TakeMessage>>, <<SkipMessage>>, <<TakeMessage, SkipMessage>>}

\* C6 as stated: every request whose take parses to an integer <= 0 is
\* answered 400 with the single message "Invalid take, skip".
Orig_C6_TakeOutOfRange ==
  (entry = "http" /\ ParsesUpTo(query.take, 0)) => response = InvalidTakeSkip

\* C6: a request whose take parses to an integer <= 0 is answered 400 and
\* gets no mails; the message is the single "Invalid take, skip" when take
\* and skip are each absent or a number string, and the messages of the
\* Request Validator when one of them is not.
Thm_C6_TakeOutOfRange ==
  (entry = "http" /\ ParsesUpTo(query.take, 0))
  => /\ response.status = 400
     /\ DOMAIN response.body = {"message"}
     /\ (NumericOrAbsent(query.take) /\ NumericOrAbsent(query.skip))
          => response = InvalidTakeSkip
     /\ ~(NumericOrAbsent(query.take) /\ NumericOrAbsent(query.skip))
          => ValidationFailure

\* a take of 0 in a request the ValidationPipe lets through
Wit_C6_ZeroTake ==
  /\ entry = "http"
  /\ ParsesUpTo(query.take, 0) /\ parseInt(query.take).val = 0
  /\ NumericOrAbsent(query.take) /\ NumericOrAbsent(query.skip)
  /\ response = InvalidTakeSkip

\* C7 as stated: every request whose skip parses to an integer < 0 is
\* answered 400 with the message "Invalid take, skip", and skip = 0 is
\* accepted: 200 when nothing is wrong with take.
Orig_C7_SkipOutOfRange ==
  entry = "http"
  => /\ ParsesUpTo(query.skip, -1) => response = InvalidTakeSkip
     /\ (query.skip = <<"0">> /\ NumericOrAbsent(query.take)
           /\ AbsentOrFrom(query.take, 1)) => Succeeded

\* C7: a request whose skip parses to an integer < 0 is answered 400; the
\* message is the single "Invalid take, skip" when take and skip are each
\* absent or a number string, and the messages of the Request Validator when
\* one of them is not.  skip = 0 is accepted: the response is 200 when take
\* is absent or a number string that parses to an integer >= 1.
Thm_C7_SkipOutOfRange ==
  entry = "http"
  => /\ ParsesUpTo(query.skip, -1)
          => /\ response.status = 400
             /\ (NumericOrAbsent(query.take) /\ NumericOrAbsent(query.skip))
                  => response = InvalidTakeSkip
             /\ ~(NumericOrAbsent(query.take) /\ NumericOrAbsent(query.skip))
                  => ValidationFailure
     /\ (query.skip = <<"0">> /\ NumericOrAbsent(query.take)
           /\ AbsentOrFrom(query.take, 1)) => Succeeded

\* a negative skip next to a valid take, in a request the ValidationPipe
\* lets through
Wit_C7_NegativeSkip ==
  /\ entry = "http"
  /\ ParsesUpTo(query.skip, -1) /\ isNumeric(query.skip)
  /\ ParsesFrom(query.take, 1) /\ isNumeric(query.take)
  /\ response = InvalidTakeSkip

\* the parameter is given and is not a number string
Offending(param) == param # Undefined /\ ~isNumeric(param)

\* C8: a request with a take or a skip that is given and is not a number
\* string is answered 400 by the Request Validator, before the service runs;
\* the message has "take must be a valid number" exactly when take is
\* offending and "skip must be a valid number" exactly when skip is, and an
\* absent parameter never gives a message.
Thm_C8_ValidationMessages ==
  entry = "http"
  => /\ (Offending(query.take) \/ Offending(query.skip))
          => /\ response.status = 400
             /\ response.body.message.array
             /\ trace = <<"validate">>
             /\ response.body.message.items
                  = (IF Offending(query.take) THEN <<TakeMessage>> ELSE <<>>)
                    \o (IF Offending(query.skip) THEN <<SkipMessage>> ELSE <<>>)
     /\ ~(Offending(query.take) \/ Offending(query.skip))
          => ~ValidationFailure

\* both parameters offending, both named in the response
Wit_C8_BothOffending ==
  /\ entry = "http"
  /\ Offending(query.take) /\ Offending(query.skip)
  /\ response.body.message = ArrayMessage(<<TakeMessage, SkipMessage>>)

\* a decimal string: digits, a point, digits
IsDecimal(param) ==
  \E d \in 2..(Len(param) - 1) :
    /\ param[d] = "."
    /\ \A i \in (1..Len(param)) \ {d} : param[i] \in Digits

\* the digits before the point of a decimal string
IntegerPart(param) ==
  SubSeq(param, 1, (CHOOSE d \in 1..Len(param) : param[d] = ".") - 1)

\* a string of digits
IsDigits(param) ==
  param # Undefined /\ param # <<>> /\ \A i \in 1..Len(param) : param[i] \in Digits

Truncated(param) == IF IsDecimal(param) THEN IntegerPart(param) ELSE param

\* C9: a decimal take or skip is not refused but cut to the digits before
\* the point: when these are a valid take (>= 1) and a valid skip (>= 0) the
\* response is the one of the request with the integer parts.
Thm_C9_DecimalTruncated ==
  (/\ entry \in {"http", "service"}
   /\ IsDecimal(query.take) \/ IsDecimal(query.skip)
   /\ query.take = Undefined \/ IsDecimal(query.take) \/ IsDigits(query.take)
   /\ query.skip = Undefined \/ IsDecimal(query.skip) \/ IsDigits(query.skip)
   /\ query.take # Undefined => DigitsValue(Truncated(query.take)) >= 1)
  => LET whole == [take |-> Truncated(query.take), skip |-> Truncated(query.skip)]
         take  == IF query.take = Undefined THEN 10 ELSE DigitsValue(whole.take)
         skip  == IF query.skip = Undefined THEN 0 ELSE DigitsValue(whole.skip)
     IN  /\ Succeeded
         /\ response.body = [mails |-> Page(mails, take, skip),
                             totalCount |-> Len(mails)]
         /\ response = IF entry = "http" THEN getMails(whole, mails).response
                       ELSE getMailPaginated(whole, mails).response

\* a decimal take and a decimal skip over HTTP, and a page that shows both
\* were cut to their integer parts
Wit_C9_BothDecimal ==
  /\ entry = "http"
  /\ IsDecimal(query.take) /\ IsDecimal(query.skip)
  /\ DigitsValue(IntegerPart(query.take)) = 1
  /\ DigitsValue(IntegerPart(query.skip)) = 1
  /\ Len(mails) > 2
  /\ Succeeded
  /\ response.body.mails = <<mails[2]>>

\* C10: getMailPaginated never changes the collection: whatever the
\* requests, successful or not, it keeps its records, their order and their
\* fields.
Thm_C10_CollectionUnchanged == [][mails' = mails]_vars

\* a request answered with some of the records, the collection still whole
Wit_C10_AfterRequests ==
  /\ entry # "none"
  /\ Succeeded
  /\ response.body.mails # <<>>
  /\ Len(response.body.mails) < Len(mails)
  /\ mails = MailsOfSize(Len(mails))

\* C11: getMailPaginated is idempotent and deterministic: a request made
\* again with the same take and skip, in the same way, has the same outcome,
\* the same mails and totalCount or the same error.
Thm_C11_SameRequestSameOutcome ==
  [][entry' = entry => response' = response]_vars

\* a direct call answered with records, made for the second time in a row
Wit_C11_CalledTwice ==
  /\ repeated
  /\ entry = "service"
  /\ Succeeded
  /\ response.body.mails # <<>>
  /\ Len(response.body.mails) < Len(mails)

\* take and skip are each absent or a number string in its range
ValidQuery ==
  /\ NumericOrAbsent(query.take) /\ AbsentOrFrom(query.take, 1)
  /\ NumericOrAbsent(query.skip) /\ AbsentOrFrom(query.skip, 0)

\* C12: for a valid take and skip the body of the response of GET /mails is
\* the result of a direct call of getMailPaginated with the same strings:
\* the same mails and the same totalCount, nothing added or removed.
Thm_C12_HttpSameAsService ==
  [][({entry, entry'} = {"service", "http"} /\ ValidQuery)
       => /\ response'.status = 200
          /\ response.status = 200
          /\ response'.body = response.body]_vars

\* GET /mails with a take and a skip, answered with records that are not
\* the first of the collection
Wit_C12_HttpPage ==
  /\ entry = "http"
  /\ query.take # Undefined /\ query.skip # Undefined
  /\ ValidQuery
  /\ Succeeded
  /\ response.body.mails # <<>>
  /\ response.body.mails[1].id > 1

\* C13: a 200 response of GET /mails has no more mails than the take in
\* effect (the take given, 10 when none is) and no more than totalCount,
\* however large the take.
Thm_C13_TakeLimit ==
  (entry = "http" /\ Succeeded)
  => /\ Len(response.body.mails)
          <= (IF query.take = Undefined THEN 10 ELSE parseInt(query.take).val)
     /\ Len(response.body.mails) <= response.body.totalCount

\* a take that is larger than the collection of mails.ts
Wit_C13_LargeTake ==
  /\ entry = "http"
  /\ ParsesFrom(query.take, 100)
  /\ Succeeded
  /\ Len(mails) = NumMails
  /\ Len(response.body.mails) = NumMails

\* C14 as stated: the failure that reaches the caller carries "take must be
\* a positive number (minimum 1)" for a take that parses to <= 0 and "skip
\* must be a positive number or zero" for a skip that parses to < 0.
Orig_C14_RangeMessages ==
  ServiceInvoked
  => /\ ParsesUpTo(query.take, 0)
          => response = BadRequestException(
                 SingleMessage("take must be a positive number (minimum 1)"))
     /\ (ParsesUpTo(query.skip, -1) /\ AbsentOrFrom(query.take, 1))
          => response = BadRequestException(
                 SingleMessage("skip must be a positive number or zero"))

\* C14: for a take that parses to <= 0, and for a skip that parses to < 0
\* next to a take that is absent or valid, the failure that reaches the
\* caller of getMailPaginated carries "Invalid take, skip"; "Take must be a
\* positive number (minimum 1)" and "Skip must be a positive number or zero"
\* are the messages of the Error that is caught and written to the log.
Thm_C14_RangeMessages ==
  ServiceInvoked
  => /\ ParsesUpTo(query.take, 0)
          => /\ response = InvalidTakeSkip
             /\ logged = <<"Error parsing take, skip",
                           "Take must be a positive number (minimum 1)">>
     /\ (ParsesUpTo(query.skip, -1) /\ AbsentOrFrom(query.take, 1))
          => /\ response = InvalidTakeSkip
             /\ logged = <<"Error parsing take, skip",
                           "Skip must be a positive number or zero">>

\* a negative skip next to a valid take, in a direct call
Wit_C14_NegativeSkipLogged ==
  /\ entry = "service"
  /\ ParsesUpTo(query.skip, -1) /\ ParsesFrom(query.take, 1)
  /\ response = InvalidTakeSkip
  /\ logged[2] = "Skip must be a positive number or zero"

\* the parameter is given and parses to NaN
NotANumber(param) == param # Undefined /\ isNaN(parseInt(param))

\* the first test that fails in the service is an isNaN test
NaNFailure ==
  \/ NotANumber(query.take)
  \/ AbsentOrFrom(query.take, 1) /\ NotANumber(query.skip)

\* the first test that fails in the service is a range test
RangeFailure ==
  \/ ParsesUpTo(query.take, 0)
  \/ AbsentOrFrom(query.take, 1) /\ ParsesUpTo(query.skip, -1)

\* queries that fail a range test: take=0, and skip=-1
RangeQueries ==
  {[take |-> <<"0">>, skip |-> Undefined],
   [take |-> Undefined, skip |-> <<"-", "1">>]}

\* C15 as stated: in the service the failure for a parameter that parses
\* to NaN is never the failure for a parameter out of range.
Orig_C15_NaNDistinctFromRange ==
  (ServiceInvoked /\ NaNFailure)
  => \A q \in RangeQueries : response # getMailPaginated(q, mails).response

\* C15: in the service a parameter that parses to NaN and a parameter out
\* of range are told apart in the log only, "Invalid take parameter" or
\* "Invalid skip parameter" against the two range messages; the failure
\* that reaches the caller is the same BadRequestException "Invalid take,
\* skip" in both cases.
Thm_C15_NaNDistinctInLogOnly ==
  (ServiceInvoked /\ (NaNFailure \/ RangeFailure))
  => /\ response = InvalidTakeSkip
     /\ Len(logged) = 2
     /\ NaNFailure
          <=> logged[2] \in {"Invalid take parameter", "Invalid skip parameter"}
     /\ RangeFailure
          <=> logged[2] \in {"Take must be a positive number (minimum 1)",
                             "Skip must be a positive number or zero"}

\* a skip that is not a number next to a valid take, in a direct call
Wit_C15_NaNSkip ==
  /\ entry = "service"
  /\ NotANumber(query.skip) /\ ParsesFrom(query.take, 1)
  /\ response = InvalidTakeSkip
  /\ logged[2] = "Invalid skip parameter"

\* the parameter is given and does not denote a value from low on: it
\* parses to NaN (the empty string does) or to less than low
InvalidGiven(param, low) ==
  /\ param # Undefined
  /\ isNaN(parseInt(param)) \/ parseInt(param).val < low

DirectCall == entry \in {"service", "first"}

\* the response is an envelope with no mails and the size of the collection
EmptyEnvelope ==
  /\ Succeeded
  /\ response.body.mails = <<>>
  /\ response.body.totalCount = Len(mails)

\* the records of source at the indices from .. to - 1, counted from 0
Run(source, from, to) == [i \in 1..Max(0, to - from) |-> source[from + i]]

Declared(q) == [take |-> q.take, skip |-> q.skip]

\* C20: the query parameters other than take and skip are ignored: the
\* status and the body of the response are those of the same request
\* without them, 200 when take and skip are valid.
Thm_C20_UnknownIgnored ==
  (entry = "http" /\ "unknown" \in DOMAIN query)
  => /\ response = getMails(Declared(query), mails).response
     /\ ValidQuery => Succeeded

\* GET /mails?unknown=a&take=.. answered with records
Wit_C20_UnknownAndTake ==
  /\ entry = "http"
  /\ "unknown" \in DOMAIN query
  /\ ParsesFrom(query.take, 1) /\ ValidQuery
  /\ Succeeded
  /\ response.body.mails # <<>>
  /\ Len(response.body.mails) < Len(mails)

\* the ids of the mails of the response
ResponseIds == {response.body.mails[i].id : i \in DOMAIN response.body.mails}

\* C21: no two mails of a successful response have the same id, the ids of
\* the records of the collection being all different.
Thm_C21_UniqueIds ==
  (entry # "none" /\ Succeeded)
  => /\ \A i, j \in DOMAIN response.body.mails :
          i # j => response.body.mails[i].id # response.body.mails[j].id
     /\ Cardinality(ResponseIds) = Len(response.body.mails)

\* a response with the whole of a collection of several records, asked for
\* with a take past its end
Wit_C21_SeveralMails ==
  /\ ServiceInvoked /\ Succeeded
  /\ ParsesFrom(query.take, Len(mails) + 1)
  /\ Len(response.body.mails) >= 2
  /\ Cardinality(ResponseIds) = Len(response.body.mails)

\* the parameter is a number string that parses to an integer below low:
\* the ValidationPipe lets it through and the service would refuse it
NumericBelow(param, low) ==
  param # Undefined /\ isNumeric(param) /\ ParsesUpTo(param, low - 1)

\* C22: the Request Validator runs before the service, which is not called
\* when the validation fails: a request with one parameter that is not a
\* number string and the other a number out of range (take=a&skip=-1) gets
\* the validation message of the first parameter alone, and never the
\* "Invalid take, skip" of the service.
Thm_C22_ValidatorFirst ==
  /\ (entry = "http" /\ Offending(query.take) /\ NumericBelow(query.skip, 0))
     => /\ response = BadRequestException(ArrayMessage(<<TakeMessage>>))
        /\ trace = <<"validate">>
        /\ logged = <<>>
  /\ (entry = "http" /\ Offending(query.skip) /\ NumericBelow(query.take, 1))
     => /\ response = BadRequestException(ArrayMessage(<<SkipMessage>>))
        /\ trace = <<"validate">>
        /\ logged = <<>>
  /\ (entry = "http" /\ (Offending(query.take) \/ Offending(query.skip)))
     => "parse" \notin Stages /\ response # InvalidTakeSkip

\* GET /mails?take=a&skip=-1
Wit_C22_LetterAndNegative ==
  /\ entry = "http"
  /\ query.take = <<"a">>
  /\ query.skip = <<"-", "1">>
  /\ response = BadRequestException(ArrayMessage(<<TakeMessage>>))

\* the request gets to the second try block: the first definition always
\* does, the second one past its tests, and GET /mails past the
\* ValidationPipe too
ReachesRead ==
  \/ entry = "first"
  \/ entry = "service" /\ AbsentOrFrom(query.take, 1) /\ AbsentOrFrom(query.skip, 0)
  \/ entry = "http" /\ ValidQuery

\* C23: when reading the collection fails getMailPaginated ends with a 500
\* that has a fixed message, and so it does when building the response
\* fails; in neither case is an envelope returned, partial or empty.
Thm_C23_ServerErrors ==
  /\ (ReachesRead /\ fault = "read")
     => /\ response
             = InternalServerErrorException("Error getting mails from database")
        /\ response.status = 500
        /\ logged = <<"Error getting mails from database">>
  /\ (ReachesRead /\ fault = "build")
     => /\ response = InternalServerErrorException("Error building response")
        /\ response.status = 500
        /\ logged = <<"Error building response">>
  /\ (entry # "none" /\ fault \in Faults)
     => ~Succeeded /\ DOMAIN response.body = {"message"}

\* GET /mails with a valid take and skip while the collection cannot be read
Wit_C23_ReadFails ==
  /\ entry = "http" /\ ValidQuery
  /\ query.take # Undefined /\ query.skip # Undefined
  /\ fault = "read"
  /\ response.status = 500
  /\ trace = <<"validate", "parse", "read">>

\* request r has its response
Done(r) == requests[r].pc = "done"

\* every response given so far is the one its request gets alone, on
\* source
AsAlone(source) ==
  \A r \in DOMAIN requests :
    Done(r) => requests[r].response = getMails(requests[r].query, source).response

\* C24: requests in flight at the same time are independent: in whatever
\* order their steps are taken, the response of each is the one it gets
\* when it runs alone on the collection, whatever the parameters and the
\* outcome of the others.
Thm_C24_Independent ==
  \E n \in MailCounts : AsAlone(MailsOfSize(n))

\* two requests answered, one with mails and one refused by the service,
\* on the collection of mails.ts
Wit_C24_SuccessAndFailure ==
  /\ DOMAIN requests = Clients
  /\ Done("c1") /\ Done("c2")
  /\ Len(mails) = NumMails
  /\ requests["c1"].response.status = 200
  /\ requests["c1"].response.body.mails # <<>>
  /\ requests["c2"].response = InvalidTakeSkip
  /\ AsAlone(mails)

\* the line of the log is that of an isNaN test of the service
NaNLogged ==
  /\ logged # <<>>
  /\ logged[Len(logged)] \in {"Invalid take parameter", "Invalid skip parameter"}

\* C25 as stated: every take or skip that the Request Validator accepts as
\* a number string parses to a number in the service, so that no request of
\* GET /mails gets to the not-a-number failure of the service, and every
\* parameter that is not a number is reported with the validation message of
\* its field.
Orig_C25_AcceptedParses ==
  entry = "http"
  => /\ \A param \in {query.take, query.skip} :
          IsNumberString(param) => ~isNaN(parseInt(param))
     /\ ~NaNLogged
     /\ (NotANumber(query.take) \/ NotANumber(query.skip)) => ValidationFailure

\* the mails of the first n pages, one page after the other
RECURSIVE Collected(_)
Collected(n) ==
  IF n = 0 THEN <<>>
  ELSE Collected(n - 1)
         \o (IF requests[n].pc = "done" /\ requests[n].response.status = 200
             THEN requests[n].response.body.mails ELSE <<>>)

\* the client has its last response: one that is no page with mails
LastPageRead ==
  /\ requests[Len(requests)].pc = "done"
  /\ \/ requests[Len(requests)].response.status # 200
     \/ requests[Len(requests)].response.body.mails = <<>>

\* C26: the pages tile the collection: for every page size k >= 1 the mails
\* of the requests (take=k, skip=0), (take=k, skip=k), (take=k, skip=2k), ..
\* up to the first page with no mails, put one after the other, are the
\* whole collection in its order, no record twice and none left out.
Thm_C26_PagesTile ==
  /\ Len(Collected(Len(requests))) <= Len(mails)
  /\ \A i \in DOMAIN Collected(Len(requests)) :
       i <= Len(mails) => Collected(Len(requests))[i] = mails[i]
  /\ LastPageRead
     => /\ \A n \in DOMAIN requests : requests[n].response.status = 200
        /\ Collected(Len(requests)) = mails

\* mails.ts read to its end in pages of a size that does not divide its
\* number of records: full pages, a shorter one, and the page with no mails
Wit_C26_ShortLastPage ==
  /\ Len(requests) >= 4
  /\ LastPageRead
  /\ Len(mails) = NumMails
  /\ Len(requests[Len(requests) - 1].response.body.mails) < PageSize
  /\ Len(requests[1].response.body.mails) = PageSize
  /\ Collected(Len(requests)) = mails

\* take and skip are both given and parse to a take >= 1 and a skip >= 0
BothGivenAndValid == ParsesFrom(query.take, 1) /\ ParsesFrom(query.skip, 0)

\* C27: the two definitions of getMailPaginated in mails.service.ts, the
\* one without tests on the parameters and the one with the defaults and
\* the range tests, return the same result for every query with a take and
\* a skip that are both given and parse to take >= 1 and skip >= 0, so that
\* where they differ a parameter is absent, not a number or out of range.
Thm_C27_DefinitionsAgree ==
  (/\ entry \in {"service", "first"}
   /\ query.take # Undefined /\ query.skip # Undefined
   /\ ~NotANumber(query.take) /\ ~NotANumber(query.skip)
   /\ ~ParsesUpTo(query.take, 0) /\ ~ParsesUpTo(query.skip, -1))
  => /\ BothGivenAndValid
     /\ Succeeded
     /\ response = getMailPaginated(query, mails).response
     /\ response = getMailPaginatedFirst(query, mails).response

\* the first definition called with a take and a skip that give a page
\* from inside the collection, the page the second definition gives
Wit_C27_SamePage ==
  /\ entry = "first"
  /\ ParsesFrom(query.take, 1) /\ ParsesFrom(query.skip, 1)
  /\ Succeeded
  /\ response.body.mails # <<>>
  /\ Len(response.body.mails) = parseInt(query.take).val
  /\ response = getMailPaginated(query, mails).response

\* the request has a parameter that it does not get past: one that the
\* service refuses, or over HTTP one that is not a number string
InvalidParameter ==
  \/ InvalidGiven(query.take, 1)
  \/ InvalidGiven(query.skip, 0)
  \/ entry = "http" /\ (Offending(query.take) \/ Offending(query.skip))

====
